---- MODULE Spec2Model ----
(***************************************************************************)
(* ProTools code review: the in-memory review task store                   *)
(* (tools/review/task-store.ts), the status state machine                  *)
(* (updateTaskStatus), the asynchronous review orchestrator that drives    *)
(* them, the synchronous review path (tools/code-review.ts), and the      *)
(* validation and merging of reviewer results                              *)
(* (tools/review/result-processor.ts and their copies in code-review.ts).  *)
(*                                                                         *)
(* Time is counted in abstract ticks; the TTL, the cleanup interval and    *)
(* the task cap keep their roles but are scaled down so that expiry and    *)
(* eviction happen within the bounds.                                      *)
(***************************************************************************)
EXTENDS Integers, Sequences, FiniteSets, TLC

\* ------------------------------------------------------------------ bounds
MaxTasks == 2            \* tasks created while the store and its timer run
MaxReviews == 2          \* tasks created while reviewers settle at one instant
MaxTime == 2             \* last tick of Date.now()
MaxProviderListLen == 2  \* length of a requested provider list
MaxEnvTokens == 2        \* comma separated tokens in LLM_PROVIDER
MaxMergeResults == 2     \* reviewer records handed to the merger
MaxMergeFindings == 2    \* findings in all records of one merge
MaxScoreResults == 3     \* reviewer records whose scores are averaged
MaxDuration == 2         \* elapsed ms of a review when it is merged
MaxRawCompanions == 2    \* raw findings next to the one under validation

\* ------------------------------------------------- program constants (scaled)
REVIEW_TASK_TTL_MS == 1
REVIEW_TASK_MAX_COUNT == 1
REVIEW_TASK_CLEANUP_INTERVAL_MS == 1

LLMProviderType == {"openai", "gemini"}

NoTask == [id |-> 0]

NoCall == [fn |-> "none", phase |-> "idle"]

TaskIds == 1..MaxTasks

VARIABLES
    tasks,            \* task id -> ReviewTask object (NoTask before creation)
    reviewTaskStore,  \* the Map, as its keys in insertion order
    now,              \* Date.now()
    nextCleanupAt,    \* next firing of the setInterval cleanup timer
    nextTaskId,       \* the next id generateTaskId() hands out
    orch,             \* per task: the orchestrator's dispatched calls
    sync,             \* the synchronous executeCodeReview request
    proc              \* the result processor's call: function, input, output

vars == <<tasks, reviewTaskStore, now, nextCleanupAt, nextTaskId, orch, sync, proc>>

\* ----------------------------------------------------------------- helpers
SeqToSet(s) == {s[i] : i \in 1..Len(s)}

SeqsUpTo(S, n) == UNION {[1..k -> S] : k \in 0..n}

\* obj[k] = v on a JS object: adds the key or overwrites its value
Put(m, k, v) == [q \in (DOMAIN m) \cup {k} |-> IF q = k THEN v ELSE m[q]]

EmptyRecord == <<>>


\* -------------------------------------------------------------- task store
\* faulty variant: the task object is handed out whether or not the Map
\* still holds its key
getTask_FromHeap(taskId) == tasks[taskId]

getTask(taskId) ==
    IF taskId \in SeqToSet(reviewTaskStore) THEN tasks[taskId] ELSE NoTask

\* Map.set: an absent key is appended, a present key keeps its position
saveTask(store, taskId) ==
    IF taskId \in SeqToSet(store) THEN store ELSE Append(store, taskId)

deleteTask(store, taskId) == SelectSeq(store, LAMBDA k : k # taskId)

\* faulty variant: a task is dropped as soon as its age reaches the TTL
IsExpired_AtTtl(task, t) == t - task.updatedAt >= REVIEW_TASK_TTL_MS

IsExpired(task, t) == t - task.updatedAt > REVIEW_TASK_TTL_MS

\* step 1 of cleanupReviewTasks: delete the expired entries
ExpireTasks(store, t) == SelectSeq(store, LAMBDA k : ~IsExpired(tasks[k], t))

\* faulty variant: the comparator sorts the newest first
sortComparator_Descending(a, b) == tasks[b].updatedAt - tasks[a].updatedAt

sortComparator(a, b) == tasks[a].updatedAt - tasks[b].updatedAt

\* Array.prototype.sort is stable: insert each entry after the entries that
\* do not compare greater than it
RECURSIVE InsertSorted(_, _)
InsertSorted(sorted, k) ==
    IF sorted = <<>> THEN <<k>>
    ELSE IF sortComparator(Head(sorted), k) <= 0
         THEN <<Head(sorted)>> \o InsertSorted(Tail(sorted), k)
         ELSE <<k>> \o sorted

RECURSIVE SortByUpdatedAt(_)
SortByUpdatedAt(s) ==
    IF s = <<>> THEN <<>>
    ELSE InsertSorted(SortByUpdatedAt(SubSeq(s, 1, Len(s) - 1)), s[Len(s)])

\* step 2 of cleanupReviewTasks: over the cap, drop the oldest by updatedAt
EvictTasks(store) ==
    IF Len(store) > REVIEW_TASK_MAX_COUNT
    THEN LET sorted == SortByUpdatedAt(store)
             toRemove == SeqToSet(SubSeq(sorted, 1, Len(store) - REVIEW_TASK_MAX_COUNT))
         IN SelectSeq(store, LAMBDA k : k \notin toRemove)
    ELSE store

cleanupReviewTasks(store, t) == EvictTasks(ExpireTasks(store, t))

\* faulty variant: the list is returned without removing duplicates
normalizeProviders_KeepDuplicates(providers) == providers

RECURSIVE normalizeProviders(_)
normalizeProviders(providers) ==
    IF providers = <<>> THEN <<>>
    ELSE LET front == normalizeProviders(SubSeq(providers, 1, Len(providers) - 1))
             last == providers[Len(providers)]
         IN IF last \in SeqToSet(front) THEN front ELSE Append(front, last)

\* faulty variant: any failure makes the finished task failed
NextStatus_AnyFailureFails(readyCount, failedCount, providerCount) ==
    LET finishedCount == readyCount + failedCount
    IN IF finishedCount = 0 THEN "pending"
       ELSE IF finishedCount < providerCount THEN "partial"
       ELSE IF failedCount > 0 THEN "failed"
       ELSE "completed"

\* faulty variant: the task is terminal one settlement early
NextStatus_OneEarly(readyCount, failedCount, providerCount) ==
    LET finishedCount == readyCount + failedCount
    IN IF finishedCount = 0 THEN "pending"
       ELSE IF finishedCount < providerCount - 1 THEN "partial"
       ELSE IF readyCount = 0 THEN "failed"
       ELSE "completed"

\* faulty variant: the last settlement still counts as partial
NextStatus_NeverTerminal(readyCount, failedCount, providerCount) ==
    LET finishedCount == readyCount + failedCount
    IN IF finishedCount = 0 THEN "pending"
       ELSE IF finishedCount <= providerCount THEN "partial"
       ELSE IF readyCount = 0 THEN "failed"
       ELSE "completed"

NextStatus(readyCount, failedCount, providerCount) ==
    LET finishedCount == readyCount + failedCount
    IN IF finishedCount = 0 THEN "pending"
       ELSE IF finishedCount < providerCount THEN "partial"
       ELSE IF readyCount = 0 THEN "failed"
       ELSE "completed"

updateTaskStatus(task, t) ==
    [task EXCEPT
        !.status = NextStatus(Cardinality(DOMAIN task.results),
                              Cardinality(DOMAIN task.errors),
                              Len(task.providers)),
        !.updatedAt = t]

IsTerminal(status) == status \in {"completed", "failed"}

\* ---------------------------------------------------- review orchestrator
\* A dispatched reviewer call is "inflight" until it settles, then "done".
ProviderLists == SeqsUpTo(LLMProviderType, MaxProviderListLen)

NewTask(taskId, providers, output, t) ==
    [id |-> taskId,
     status |-> "pending",
     providers |-> providers,
     output |-> output,
     updatedAt |-> t,
     results |-> EmptyRecord,
     errors |-> EmptyRecord,
     combinedResult |-> "none",
     report |-> "none",
     outputPath |-> "none"]

NewDispatch(providers) ==
    [calls |-> [i \in 1..Len(providers) |-> "inflight"],
     finalizeCount |-> 0,
     combineCount |-> 0,
     writeCount |-> 0,
     write |-> "none"]

NoDispatch == NewDispatch(<<>>)

\* Finalization of a task that has just become terminal: with at least one
\* success the combined result and report are set, and a task configured
\* with output "file" starts the detached report write.
Finalize(task) ==
    IF DOMAIN task.results # {}
    THEN [task EXCEPT !.combinedResult = "set", !.report = "set"]
    ELSE task

FinalizeDispatch(d, task) ==
    LET combined == DOMAIN task.results # {}
        writes == combined /\ task.output = "file"
    IN [d EXCEPT !.finalizeCount = @ + 1,
                 !.combineCount = IF combined THEN @ + 1 ELSE @,
                 !.writeCount = IF writes THEN @ + 1 ELSE @,
                 !.write = IF writes THEN "writing" ELSE @]

\* Settlement of call i of a task: record the outcome, recompute the status
\* and, on reaching a terminal status for the first time, finalize.
Settle(taskId, i, recorded) ==
    LET updated == updateTaskStatus(recorded, now)
        finalizes == IsTerminal(updated.status) /\ orch[taskId].finalizeCount = 0
        settled == [orch[taskId] EXCEPT !.calls[i] = "done"]
    IN /\ tasks' = [tasks EXCEPT ![taskId] =
                        IF finalizes THEN Finalize(updated) ELSE updated]
       /\ orch' = [orch EXCEPT ![taskId] =
                        IF finalizes THEN FinalizeDispatch(settled, updated) ELSE settled]

\* nothing stored, no review running
InitIdle ==
    /\ tasks = [k \in TaskIds |-> NoTask]
    /\ reviewTaskStore = <<>>
    /\ now = 0
    /\ nextCleanupAt = REVIEW_TASK_CLEANUP_INTERVAL_MS
    /\ nextTaskId = 1
    /\ orch = [k \in TaskIds |-> NoDispatch]
    /\ sync = [phase |-> "idle"]

Init ==
    /\ InitIdle
    /\ proc = NoCall

\* Date.now() advances; the cleanup timer is never more than a tick late
Tick ==
    /\ now < MaxTime
    /\ now < nextCleanupAt
    /\ now' = now + 1
    /\ UNCHANGED <<tasks, reviewTaskStore, nextCleanupAt, nextTaskId, orch, sync, proc>>

\* setInterval(cleanupReviewTasks, REVIEW_TASK_CLEANUP_INTERVAL_MS)
CleanupTimer ==
    /\ now >= nextCleanupAt
    /\ reviewTaskStore' = cleanupReviewTasks(reviewTaskStore, now)
    /\ nextCleanupAt' = nextCleanupAt + REVIEW_TASK_CLEANUP_INTERVAL_MS
    /\ UNCHANGED <<tasks, now, nextTaskId, orch, sync, proc>>

\* start of an asynchronous review: an empty reviewer list is rejected,
\* otherwise the task is created pending, saved and one call per reviewer
\* is dispatched
\* faulty variant: a review is started for an empty reviewer list too
StartReview_AcceptsEmpty(requested, output) ==
    LET providers == normalizeProviders(requested)
        taskId == nextTaskId
    IN /\ nextTaskId <= MaxTasks
       /\ tasks' = [tasks EXCEPT ![taskId] = NewTask(taskId, providers, output, now)]
       /\ reviewTaskStore' = saveTask(reviewTaskStore, taskId)
       /\ orch' = [orch EXCEPT ![taskId] = NewDispatch(providers)]
       /\ nextTaskId' = nextTaskId + 1
       /\ UNCHANGED <<now, nextCleanupAt, sync, proc>>

StartReview(requested, output) ==
    LET providers == normalizeProviders(requested)
        taskId == nextTaskId
    IN IF providers = <<>>
       THEN UNCHANGED vars
       ELSE /\ nextTaskId <= MaxTasks
            /\ tasks' = [tasks EXCEPT ![taskId] = NewTask(taskId, providers, output, now)]
            /\ reviewTaskStore' = saveTask(reviewTaskStore, taskId)
            /\ orch' = [orch EXCEPT ![taskId] = NewDispatch(providers)]
            /\ nextTaskId' = nextTaskId + 1
            /\ UNCHANGED <<now, nextCleanupAt, sync, proc>>

ReviewerSucceeds(taskId, i) ==
    /\ tasks[taskId] # NoTask
    /\ i \in DOMAIN orch[taskId].calls
    /\ orch[taskId].calls[i] = "inflight"
    /\ LET provider == tasks[taskId].providers[i]
       IN Settle(taskId, i,
                 [tasks[taskId] EXCEPT !.results = Put(@, provider, [call |-> i])])
    /\ UNCHANGED <<reviewTaskStore, now, nextCleanupAt, nextTaskId, sync, proc>>

ReviewerFails(taskId, i) ==
    /\ tasks[taskId] # NoTask
    /\ i \in DOMAIN orch[taskId].calls
    /\ orch[taskId].calls[i] = "inflight"
    /\ LET provider == tasks[taskId].providers[i]
       IN Settle(taskId, i,
                 [tasks[taskId] EXCEPT !.errors = Put(@, provider, [call |-> i])])
    /\ UNCHANGED <<reviewTaskStore, now, nextCleanupAt, nextTaskId, sync, proc>>

\* the detached report write settles: the path is set, or the failure logged
ReportWritten(taskId, ok) ==
    /\ orch[taskId].write = "writing"
    /\ orch' = [orch EXCEPT ![taskId].write = IF ok THEN "written" ELSE "failed"]
    /\ tasks' = [tasks EXCEPT ![taskId].outputPath = IF ok THEN "set" ELSE @]
    /\ UNCHANGED <<reviewTaskStore, now, nextCleanupAt, nextTaskId, sync, proc>>

\* a status poll reads the store and changes nothing; what it returns in a
\* state is getTask(taskId) evaluated there
GetTask(taskId) ==
    /\ taskId \in TaskIds
    /\ UNCHANGED vars

DeleteTask(taskId) ==
    /\ reviewTaskStore' = deleteTask(reviewTaskStore, taskId)
    /\ UNCHANGED <<tasks, now, nextCleanupAt, nextTaskId, orch, sync, proc>>

\* The store with its clock and cleanup timer; reviews are requested inline
\* from these reviewer lists.
StoreRequests == {<<>>, <<"openai">>, <<"openai", "gemini">>}

Next ==
    \/ Tick
    \/ CleanupTimer
    \/ \E requested \in StoreRequests : StartReview(requested, "inline")
    \/ \E taskId \in TaskIds, i \in 1..MaxProviderListLen : ReviewerSucceeds(taskId, i)
    \/ \E taskId \in TaskIds, i \in 1..MaxProviderListLen : ReviewerFails(taskId, i)
    \/ \E taskId \in TaskIds : GetTask(taskId)
    \/ \E taskId \in TaskIds : DeleteTask(taskId)

Spec == Init /\ [][Next]_vars

\* The store driven directly through its exported operations: saveTask is
\* called with any task object, its id already stored or not.
SavedTasks ==
    {NewTask(taskId, providers, "inline", now) :
         taskId \in TaskIds, providers \in StoreRequests \ {<<>>}}

\* saveTask(task): reviewTaskStore.set(task.id, task)
SaveTask(task) ==
    /\ tasks' = [tasks EXCEPT ![task.id] = task]
    /\ reviewTaskStore' = saveTask(reviewTaskStore, task.id)
    /\ UNCHANGED <<now, nextCleanupAt, nextTaskId, orch, sync, proc>>

NextStore ==
    \/ Tick
    \/ CleanupTimer
    \/ \E task \in SavedTasks : SaveTask(task)
    \/ \E taskId \in TaskIds : GetTask(taskId)
    \/ \E taskId \in TaskIds : DeleteTask(taskId)

SpecStore == Init /\ [][NextStore]_vars

\* The reviews of up to MaxReviews tasks settling at one instant, for every
\* requested reviewer list and output mode.
StartAnyReview ==
    /\ nextTaskId <= MaxReviews
    /\ \E requested \in ProviderLists, output \in {"inline", "file"} :
           StartReview(requested, output)

NextReview ==
    \/ StartAnyReview
    \/ \E taskId \in TaskIds, i \in 1..MaxProviderListLen : ReviewerSucceeds(taskId, i)
    \/ \E taskId \in TaskIds, i \in 1..MaxProviderListLen : ReviewerFails(taskId, i)
    \/ \E taskId \in TaskIds, ok \in BOOLEAN : ReportWritten(taskId, ok)

SpecReview == Init /\ [][NextReview]_vars

\* ------------------------------------------ synchronous review (code-review.ts)
\* LLM_PROVIDER is a comma separated string, here the list of its tokens;
\* "unset" stands for the variable being absent.
EnvTokens == {"openai", " OpenAI ", "gemini", "claude"}

EnvValues == {<<"unset">>} \cup (SeqsUpTo(EnvTokens, MaxEnvTokens) \ {<<>>})

\* p.trim().toLowerCase()
TrimLower(token) == IF token = " OpenAI " THEN "openai" ELSE token

getConfiguredProviders(envValue) ==
    LET tokens == IF envValue = <<"unset">> THEN <<"openai">> ELSE envValue
        lowered == [i \in 1..Len(tokens) |-> TrimLower(tokens[i])]
        providers == SelectSeq(lowered, LAMBDA t : t \in LLMProviderType)
    IN IF Len(providers) > 0 THEN providers ELSE <<"openai">>

\* getLLMProvider(type): the type defaults to the raw LLM_PROVIDER string,
\* then to "openai"; "unknown" stands for the thrown error
getLLMProvider(type, envValue) ==
    LET providerType ==
            IF type # "none" THEN type
            ELSE IF envValue = <<"unset">> THEN "openai"
            ELSE IF Len(envValue) = 1 THEN envValue[1]
            ELSE "list"
    IN IF providerType \in LLMProviderType THEN providerType ELSE "unknown"

\* for (const {providerType, result} of results) providerResults[providerType] = result
RECURSIVE BuildProviderResults(_, _)
BuildProviderResults(providers, n) ==
    IF n = 0 THEN EmptyRecord
    ELSE Put(BuildProviderResults(providers, n - 1), providers[n], [call |-> n])

Invocations(providers, p) == Cardinality({i \in 1..Len(providers) : providers[i] = p})

IdleSync == [phase |-> "idle"]

NoResult == [kind |-> "none", calls |-> <<>>]

\* executeSingleReview: the validated result of the one call, and
\* generateMarkdownReport of it
IndividualResult(i) == [kind |-> "individual", calls |-> <<i>>]

IndividualReport(i) == [by |-> "generateMarkdownReport", of |-> IndividualResult(i)]

\* executeConcurrentReview: combineReviewResults over the results of all
\* calls, and generateCombinedMarkdownReport of it
CombinedResult(n) == [kind |-> "combined", calls |-> [i \in 1..n |-> i]]

CombinedReport(n) == [by |-> "generateCombinedMarkdownReport", of |-> CombinedResult(n)]

Request(envValue, providerType, isConcurrent, concurrent, providers, phase) ==
    [phase |-> phase,
     envValue |-> envValue,
     providerType |-> providerType,
     isConcurrent |-> isConcurrent,
     concurrent |-> concurrent,
     providers |-> providers,
     calls |-> [i \in 1..Len(providers) |-> "pending"],
     providerResults |-> EmptyRecord,
     result |-> NoResult,
     report |-> [by |-> "none", of |-> NoResult]]

\* executeCodeReview from the choice of the execution mode on: one call to
\* provider.chat per provider of the chosen mode is started
ExecuteCodeReview(envValue, providerType, isConcurrent) ==
    /\ sync.phase = "idle"
    /\ LET configuredProviders == getConfiguredProviders(envValue)
           single == providerType # "none" \/ ~isConcurrent
                         \/ Len(configuredProviders) <= 1
           provider == getLLMProvider(providerType, envValue)
       IN sync' =
            IF single
            THEN IF provider = "unknown"
                 THEN Request(envValue, providerType, isConcurrent, FALSE, <<>>, "rejected")
                 ELSE Request(envValue, providerType, isConcurrent, FALSE, <<provider>>, "running")
            ELSE Request(envValue, providerType, isConcurrent, TRUE, configuredProviders, "running")
    /\ UNCHANGED <<tasks, reviewTaskStore, now, nextCleanupAt, nextTaskId, orch, proc>>

\* a provider.chat call resolves; when it was the last one the awaited
\* Promise.all (or the single await) resolves and the results are collected
ChatResolves(i) ==
    /\ sync.phase \in {"running", "rejected"}
    /\ i \in DOMAIN sync.calls
    /\ sync.calls[i] = "pending"
    /\ LET calls == [sync.calls EXCEPT ![i] = "fulfilled"]
           all == \A j \in DOMAIN calls : calls[j] = "fulfilled"
       IN sync' = IF sync.phase = "running" /\ all
                  THEN [sync EXCEPT !.calls = calls,
                                    !.phase = "resolved",
                                    !.result =
                                        IF sync.concurrent
                                        THEN CombinedResult(Len(sync.providers))
                                        ELSE IndividualResult(1),
                                    !.report =
                                        IF sync.concurrent
                                        THEN CombinedReport(Len(sync.providers))
                                        ELSE IndividualReport(1),
                                    !.providerResults =
                                        IF sync.concurrent
                                        THEN BuildProviderResults(sync.providers,
                                                                  Len(sync.providers))
                                        ELSE EmptyRecord]
                  ELSE [sync EXCEPT !.calls = calls]
    /\ UNCHANGED <<tasks, reviewTaskStore, now, nextCleanupAt, nextTaskId, orch, proc>>

\* a provider.chat call rejects: the awaited promise rejects and with it the
\* review; the other calls keep running unobserved
ChatRejects(i) ==
    /\ sync.phase \in {"running", "rejected"}
    /\ i \in DOMAIN sync.calls
    /\ sync.calls[i] = "pending"
    /\ sync' = [sync EXCEPT !.calls[i] = "rejected", !.phase = "rejected"]
    /\ UNCHANGED <<tasks, reviewTaskStore, now, nextCleanupAt, nextTaskId, orch, proc>>

\* the tool handler answers with the report or with the error message
Respond ==
    /\ sync.phase \in {"resolved", "rejected"}
    /\ sync' = IdleSync
    /\ UNCHANGED <<tasks, reviewTaskStore, now, nextCleanupAt, nextTaskId, orch, proc>>

NextSync ==
    \/ \E envValue \in EnvValues, providerType \in LLMProviderType \cup {"none"},
          isConcurrent \in BOOLEAN :
           ExecuteCodeReview(envValue, providerType, isConcurrent)
    \/ \E i \in 1..MaxEnvTokens : ChatResolves(i)
    \/ \E i \in 1..MaxEnvTokens : ChatRejects(i)
    \/ Respond

SpecSync == Init /\ [][NextSync]_vars

\* --------------------------------------------------------- result processor
\* JavaScript values of an optional or unvalidated field
Undefined == [t |-> "undefined"]

Num(n) == [t |-> "number", n |-> n]

Str(s) == [t |-> "string", s |-> s]

\* v ?? d for an optional number
OrElse(v, d) == IF v = Undefined THEN d ELSE v.n

Severities == {"critical", "major", "minor", "info"}

IssueCategories == {"security", "performance", "quality", "maintainability"}

MinScore == 1
MaxScore == 10

\* const key = `${issue.file}:${issue.line_start ?? 0}:${issue.title}`
IssueKey(issue) ==
    issue.file \o ":" \o ToString(OrElse(issue.line_start, 0)) \o ":" \o issue.title

\* the issues of the first n results, in reviewer order then finding order
RECURSIVE AllIssues(_, _)
AllIssues(results, n) ==
    IF n = 0 THEN <<>> ELSE AllIssues(results, n - 1) \o results[n].issues

\* faulty variant: a later finding with a key already held replaces the
\* held one
RECURSIVE MergeIssues_LastWins(_, _)
MergeIssues_LastWins(all, n) ==
    IF n = 0 THEN <<>>
    ELSE LET held == MergeIssues_LastWins(all, n - 1)
         IN IF \E j \in 1..Len(held) : IssueKey(held[j]) = IssueKey(all[n])
            THEN [j \in 1..Len(held) |->
                      IF IssueKey(held[j]) = IssueKey(all[n]) THEN all[n] ELSE held[j]]
            ELSE Append(held, all[n])

\* Array.from(issueMap.values()) after the first n findings went through
\* if (!issueMap.has(key)) issueMap.set(key, issue)
RECURSIVE MergeIssues(_, _)
MergeIssues(all, n) ==
    IF n = 0 THEN <<>>
    ELSE LET held == MergeIssues(all, n - 1)
         IN IF \E j \in 1..Len(held) : IssueKey(held[j]) = IssueKey(all[n])
            THEN held
            ELSE Append(held, all[n])

calculateStats(issues) ==
    [total_issues |-> Len(issues),
     by_severity |-> [s \in Severities |->
                         Cardinality({i \in 1..Len(issues) : issues[i].severity = s})],
     by_category |-> [c \in IssueCategories |->
                         Cardinality({i \in 1..Len(issues) : issues[i].category = c})]]

\* severityOrder[severity] ?? 4
severityOrder(severity) ==
    CASE severity = "critical" -> 0
      [] severity = "major" -> 1
      [] severity = "minor" -> 2
      [] severity = "info" -> 3
      [] OTHER -> 4

\* faulty variant: the comparator is reversed, the least severe come first
sortIssuesBySeverity_Descending(issues) ==
    LET rank(r) == SelectSeq(issues, LAMBDA issue : severityOrder(issue.severity) = r)
    IN rank(4) \o rank(3) \o rank(2) \o rank(1) \o rank(0)

\* [...issues].sort by severityOrder: the sort is stable, so the issues of
\* one rank keep their order
sortIssuesBySeverity(issues) ==
    LET rank(r) == SelectSeq(issues, LAMBDA issue : severityOrder(issue.severity) = r)
    IN rank(0) \o rank(1) \o rank(2) \o rank(3) \o rank(4)

RECURSIVE SumScores(_, _)
SumScores(results, n) ==
    IF n = 0 THEN 0 ELSE SumScores(results, n - 1) + results[n].overall_score

\* faulty variant: the mean is truncated
MathRound_Floor(num, den) == num \div den

\* Math.round(num / den) for num >= 0, den > 0: halves round up
MathRound(num, den) == (2 * num + den) \div (2 * den)

\* faulty variant: a reviewer without a token count resets the sum
RECURSIVE SumTokens_AbsentResets(_, _)
SumTokens_AbsentResets(results, n) ==
    IF n = 0 THEN 0
    ELSE IF results[n].meta.tokens_used = Undefined THEN 0
    ELSE SumTokens_AbsentResets(results, n - 1) + results[n].meta.tokens_used.n

\* results.reduce((sum, r) => sum + (r.meta.tokens_used ?? 0), 0)
RECURSIVE SumTokens(_, _)
SumTokens(results, n) ==
    IF n = 0 THEN 0
    ELSE SumTokens(results, n - 1) + OrElse(results[n].meta.tokens_used, 0)

\* combineReviewResults(results, filesCount, startTime) called at time t
combineReviewResults(results, filesCount, startTime, t) ==
    LET avgScore == MathRound(SumScores(results, Len(results)), Len(results))
        all == AllIssues(results, Len(results))
        combinedIssues == MergeIssues(all, Len(all))
    IN [overall_score |-> avgScore,
        issues |-> sortIssuesBySeverity(combinedIssues),
        stats |-> calculateStats(combinedIssues),
        meta |-> [files_reviewed |-> filesCount,
                  tokens_used |-> Num(SumTokens(results, Len(results))),
                  duration_ms |-> t - startTime]]

\* ---- inputs of the merger
FindingFiles == {"a", "a:1"}

FindingLines == {Undefined, Num(0), Num(1)}

FindingTitles == {"x", "1:x"}

FindingSeverities == {"critical", "info"}

Findings ==
    {[file |-> file, line_start |-> line, severity |-> severity,
      category |-> "quality", title |-> title, description |-> "d"] :
         file \in FindingFiles, line \in FindingLines,
         title \in FindingTitles, severity \in FindingSeverities}

TokenCounts == {Undefined, Num(0), Num(3)}

\* a canonical record as validateAndEnrichResult returns it
ReviewResult(issues, score, tokens, duration) ==
    [overall_score |-> score,
     issues |-> issues,
     stats |-> calculateStats(issues),
     meta |-> [files_reviewed |-> 1, tokens_used |-> tokens, duration_ms |-> duration]]

\* the ways to cut len findings into 1..MaxMergeResults consecutive lists
Cuts(len) ==
    UNION {{c \in [1..(r - 1) -> 0..len] : \A i \in 1..(r - 2) : c[i] <= c[i + 1]} :
               r \in 1..MaxMergeResults}

Split(all, cuts) ==
    LET from(i) == IF i = 1 THEN 1 ELSE cuts[i - 1] + 1
        to(i) == IF i = Len(cuts) + 1 THEN Len(all) ELSE cuts[i]
    IN [i \in 1..(Len(cuts) + 1) |->
            ReviewResult(SubSeq(all, from(i), to(i)), 8, Undefined, 0)]

NonEmptySeqsUpTo(S, n) == SeqsUpTo(S, n) \ {<<>>}

\* records that differ in their findings
IssueInput(all, cuts) == [results |-> Split(all, cuts), now |-> 0]

\* records that differ in their scores
ScoreInput(scores) ==
    [results |-> [i \in DOMAIN scores |-> ReviewResult(<<>>, scores[i], Undefined, 0)],
     now |-> 0]

\* records that differ in their token counts and durations, merged at t
MetaInput(metas, t) ==
    [results |-> [i \in DOMAIN metas |-> ReviewResult(<<>>, 8, metas[i][1], metas[i][2])],
     now |-> t]

Call(fn, input) == [fn |-> fn, phase |-> "called", input |-> input, output |-> Undefined]

\* the merger is called with any of these inputs; a merge happens at any
\* instant from the last reviewer's end on
InitMerge ==
    /\ InitIdle
    /\ \/ \E all \in SeqsUpTo(Findings, MaxMergeFindings) :
              \E cuts \in Cuts(Len(all)) :
                  proc = Call("combineReviewResults", IssueInput(all, cuts))
       \/ \E scores \in NonEmptySeqsUpTo(MinScore..MaxScore, MaxScoreResults) :
              proc = Call("combineReviewResults", ScoreInput(scores))
       \/ \E metas \in NonEmptySeqsUpTo(TokenCounts \X (0..MaxDuration), MaxMergeResults),
             t \in 0..MaxDuration :
              /\ \A i \in DOMAIN metas : metas[i][2] <= t
              /\ proc = Call("combineReviewResults", MetaInput(metas, t))

CombineReturns ==
    /\ proc.fn = "combineReviewResults"
    /\ proc.phase = "called"
    /\ proc' = [proc EXCEPT !.phase = "returned",
                            !.output = combineReviewResults(proc.input.results, 1, 0,
                                                            proc.input.now)]
    /\ UNCHANGED <<tasks, reviewTaskStore, now, nextCleanupAt, nextTaskId, orch, sync>>

NextMerge == CombineReturns

SpecMerge == InitMerge /\ [][NextMerge]_vars

\* ---- validation of a reviewer's parsed output
Null == [t |-> "null"]

NaN == [t |-> "NaN"]

Arr(items) == [t |-> "array", items |-> items]

\* rawIssue?.name
RawField(rawIssue, name) == IF rawIssue.t = "object" THEN rawIssue[name] ELSE Undefined

\* the truthiness || tests
Truthy(v) ==
    CASE v.t = "string" -> v.s # ""
      [] v.t = "number" -> v.n # 0
      [] v.t \in {"object", "array"} -> TRUE
      [] OTHER -> FALSE

\* v || d
Or(v, d) == IF Truthy(v) THEN v ELSE d

\* [...].includes(v) for a list of strings
Includes(strings, v) == v.t = "string" /\ v.s \in strings

\* ReviewIssueSchema.safeParse: the typed finding, or no success
safeParse(rawIssue) ==
    IF /\ rawIssue.t = "object"
       /\ rawIssue.file.t = "string"
       /\ rawIssue.line_start.t \in {"undefined", "number"}
       /\ Includes(Severities, rawIssue.severity)
       /\ Includes(IssueCategories, rawIssue.category)
       /\ rawIssue.title.t = "string"
       /\ rawIssue.description.t = "string"
    THEN [success |-> TRUE,
          data |-> [file |-> rawIssue.file.s,
                    line_start |-> rawIssue.line_start,
                    severity |-> rawIssue.severity.s,
                    category |-> rawIssue.category.s,
                    title |-> rawIssue.title.s,
                    description |-> rawIssue.description.s]]
    ELSE [success |-> FALSE, data |-> Undefined]

\* the default title of the repair, a Chinese phrase meaning "unknown issue"
UnknownTitle == "unknown issue"

\* faulty variant: the repair leaves the severity as it came
fixedIssue_SeverityKept(rawIssue) ==
    [t |-> "object",
     file |-> Or(RawField(rawIssue, "file"), Str("unknown")),
     line_start |-> RawField(rawIssue, "line_start"),
     severity |-> RawField(rawIssue, "severity"),
     category |-> IF Includes(IssueCategories, RawField(rawIssue, "category"))
                  THEN rawIssue.category ELSE Str("quality"),
     title |-> Or(RawField(rawIssue, "title"), Str(UnknownTitle)),
     description |-> Or(RawField(rawIssue, "description"), Str(""))]

\* const fixedIssue = { ...rawIssue, severity: ..., category: ..., file: ...,
\* title: ..., description: ... }
fixedIssue(rawIssue) ==
    [t |-> "object",
     file |-> Or(RawField(rawIssue, "file"), Str("unknown")),
     line_start |-> RawField(rawIssue, "line_start"),
     severity |-> IF Includes(Severities, RawField(rawIssue, "severity"))
                  THEN rawIssue.severity ELSE Str("info"),
     category |-> IF Includes(IssueCategories, RawField(rawIssue, "category"))
                  THEN rawIssue.category ELSE Str("quality"),
     title |-> Or(RawField(rawIssue, "title"), Str(UnknownTitle)),
     description |-> Or(RawField(rawIssue, "description"), Str(""))]

\* validIssues after the first n raw findings went through the loop
RECURSIVE ValidateIssues(_, _)
ValidateIssues(rawIssues, n) ==
    IF n = 0 THEN <<>>
    ELSE LET validIssues == ValidateIssues(rawIssues, n - 1)
             result == safeParse(rawIssues[n])
             retryResult == safeParse(fixedIssue(rawIssues[n]))
         IN IF result.success THEN Append(validIssues, result.data)
            ELSE IF retryResult.success THEN Append(validIssues, retryResult.data)
            ELSE validIssues

\* Number(v) for the values a score is drawn from
ToNumber(v) ==
    CASE v.t = "number" -> v
      [] v.t = "null" -> Num(0)
      [] v.t = "string" /\ v.s = "" -> Num(0)
      [] v.t = "string" /\ v.s = "7" -> Num(7)
      [] OTHER -> NaN

\* validateAndEnrichResult of result-processor.ts
validateAndEnrichResult(parsed, meta) ==
    LET rawIssues == IF parsed.issues.t = "array" THEN parsed.issues.items ELSE <<>>
        validIssues == ValidateIssues(rawIssues, Len(rawIssues))
        number == ToNumber(parsed.overall_score)
        overallScore == IF number = NaN \/ number.n < MinScore \/ number.n > MaxScore
                        THEN 5 ELSE number.n
    IN [overall_score |-> overallScore,
        issues |-> sortIssuesBySeverity(validIssues),
        stats |-> calculateStats(validIssues),
        meta |-> [files_reviewed |-> meta.filesReviewed,
                  tokens_used |-> meta.tokensUsed,
                  duration_ms |-> meta.durationMs]]

TypeError == [t |-> "TypeError"]

\* issues.sort by severityOrder[a.severity] ?? 4 on the raw findings
SortRawIssues(issues) ==
    LET order(issue) == IF issue.severity.t = "string"
                        THEN severityOrder(issue.severity.s) ELSE 4
        rank(r) == SelectSeq(issues, LAMBDA issue : order(issue) = r)
    IN rank(0) \o rank(1) \o rank(2) \o rank(3) \o rank(4)

\* the private validateAndEnrichResult of code-review.ts: the findings are
\* taken as they are; reading a property of a null finding throws
validateAndEnrichResultLocal(parsed, meta) ==
    LET issues == IF parsed.issues.t = "array" THEN parsed.issues.items ELSE <<>>
        number == ToNumber(parsed.overall_score)
        count(name, value) ==
            Cardinality({i \in 1..Len(issues) : issues[i][name] = Str(value)})
    IN IF \E i \in 1..Len(issues) : issues[i].t # "object"
       THEN TypeError
       ELSE [overall_score |-> IF number = NaN \/ number.n = 0 THEN 5 ELSE number.n,
             issues |-> SortRawIssues(issues),
             stats |-> [total_issues |-> Len(issues),
                        by_severity |-> [s \in Severities |-> count("severity", s)],
                        by_category |-> [c \in IssueCategories \cup {"all"} |->
                                            count("category", c)]],
             meta |-> [files_reviewed |-> meta.filesReviewed,
                       tokens_used |-> meta.tokensUsed,
                       duration_ms |-> meta.durationMs]]

\* ---- inputs of the validation
RawSeverities == {Undefined, Str("minor"), Str("oops")}

RawCategories == {Undefined, Str("security"), Str("all")}

RawFiles == {Undefined, Str(""), Str("a.ts"), Num(5)}

RawTitles == {Undefined, Str(""), Str("t")}

RawDescriptions == {Undefined, Str("d")}

RawLines == {Undefined, Num(10)}

RawIssue(file, line, severity, category, title, description) ==
    [t |-> "object", file |-> file, line_start |-> line, severity |-> severity,
     category |-> category, title |-> title, description |-> description]

RawIssues ==
    {RawIssue(file, line, severity, category, title, description) :
         file \in RawFiles, line \in RawLines, severity \in RawSeverities,
         category \in RawCategories, title \in RawTitles,
         description \in RawDescriptions} \cup {Null}

\* the findings around the one under validation: one that passes strict
\* validation, one that no repair makes valid, and null
RawCompanions ==
    {RawIssue(Str("b.ts"), Undefined, Str("minor"), Str("quality"), Str("c"), Str("d")),
     RawIssue(Str("b.ts"), Str("10"), Str("major"), Str("quality"), Str("c"), Str("d")),
     Null}

InsertAt(seq, k, e) == SubSeq(seq, 1, k - 1) \o <<e>> \o SubSeq(seq, k, Len(seq))

\* the counts a reviewer's output claims for itself
RawStats == [total_issues |-> 9, by_severity |-> [critical |-> 9],
             by_category |-> [security |-> 9]]

ValidateInput(issues) ==
    [parsed |-> [issues |-> issues, overall_score |-> Num(8), stats |-> RawStats],
     meta |-> [filesReviewed |-> 1, tokensUsed |-> Undefined, durationMs |-> 0]]

RawScores ==
    {Undefined, Null, Num(-3), Num(0), Num(1), Num(7), Num(10), Num(11),
     Str(""), Str("7"), Str("abc")}

\* an output without findings whose score is the raw value
ScoredInput(score) == [ValidateInput(Arr(<<>>)) EXCEPT !.parsed.overall_score = score]

\* either validation is called with any raw finding at any place among its
\* companions, with no finding, or without an issues array
InitValidate ==
    /\ InitIdle
    /\ \E fn \in {"validateAndEnrichResult", "validateAndEnrichResultLocal"} :
           \/ \E companions \in SeqsUpTo(RawCompanions, MaxRawCompanions),
                 rawIssue \in RawIssues :
                  \E k \in 1..(Len(companions) + 1) :
                      proc = Call(fn, ValidateInput(Arr(InsertAt(companions, k, rawIssue))))
           \/ proc = Call(fn, ValidateInput(Arr(<<>>)))
           \/ proc = Call(fn, ValidateInput(Undefined))
           \/ \E score \in RawScores : proc = Call(fn, ScoredInput(score))

ValidateReturns ==
    /\ proc.fn = "validateAndEnrichResult"
    /\ proc.phase = "called"
    /\ proc' = [proc EXCEPT !.phase = "returned",
                            !.output = validateAndEnrichResult(proc.input.parsed,
                                                               proc.input.meta)]
    /\ UNCHANGED <<tasks, reviewTaskStore, now, nextCleanupAt, nextTaskId, orch, sync>>

LocalValidateReturns ==
    /\ proc.fn = "validateAndEnrichResultLocal"
    /\ proc.phase = "called"
    /\ proc' = [proc EXCEPT !.phase = "returned",
                            !.output = validateAndEnrichResultLocal(proc.input.parsed,
                                                                    proc.input.meta)]
    /\ UNCHANGED <<tasks, reviewTaskStore, now, nextCleanupAt, nextTaskId, orch, sync>>

NextValidate ==
    \/ ValidateReturns
    \/ LocalValidateReturns

SpecValidate == InitValidate /\ [][NextValidate]_vars

\* every record the result processor produces: validated or merged
InitProcessor == InitMerge \/ InitValidate

NextProcessor ==
    \/ CombineReturns
    \/ ValidateReturns
    \/ LocalValidateReturns

SpecProcessor == InitProcessor /\ [][NextProcessor]_vars

\* ------------------------------------------------- status snapshot (index.ts)
REVIEW_TASK_POLL_AFTER_MS == 2000

\* generateMarkdownReport(result): the text rendered from the record
generateMarkdownReport(result) ==
    [by |-> "generateMarkdownReport",
     score |-> result.overall_score,
     files |-> result.meta.files_reviewed,
     issues |-> result.stats.total_issues,
     provider |-> result.meta.provider]

buildTaskSummary(result) ==
    [overall_score |-> result.overall_score,
     files_reviewed |-> result.meta.files_reviewed,
     total_issues |-> result.stats.total_issues,
     duration_ms |-> result.meta.duration_ms,
     provider |-> result.meta.provider]

\* Object.keys(task.results), Object.keys(task.errors)
ReadyProviders(task) == DOMAIN task.results

FailedProviders(task) == DOMAIN task.errors

\* faulty variant: a failed reviewer is still listed as pending
PendingProviders_FailedStayPending(task) ==
    SelectSeq(task.providers, LAMBDA p : p \notin ReadyProviders(task))

PendingProviders(task) ==
    SelectSeq(task.providers,
              LAMBDA p : p \notin ReadyProviders(task) /\ p \notin FailedProviders(task))

\* task.combinedResult ?? (the only ready result, or undefined)
SummaryResult(task) ==
    IF task.combinedResult # Undefined THEN task.combinedResult
    ELSE IF Cardinality(ReadyProviders(task)) = 1
         THEN task.results[CHOOSE p \in ReadyProviders(task) : TRUE]
         ELSE Undefined

\* faulty variant: a finished task is still given a poll interval
PollAfterMs_WhenNotPending(status) ==
    IF status # "pending" THEN Num(REVIEW_TASK_POLL_AFTER_MS) ELSE Undefined

PollAfterMs(status) ==
    IF status = "partial" THEN Num(REVIEW_TASK_POLL_AFTER_MS) ELSE Undefined

\* faulty variant: the pending snapshot carries an empty report string
PendingOutput_EmptyReport(task) ==
    [task_id |-> task.id,
     status |-> "pending",
     providers |-> task.providers,
     ready_providers |-> {},
     pending_providers |-> task.providers,
     failed_providers |-> Undefined,
     provider_errors |-> Undefined,
     summary |-> Undefined,
     output_path |-> Undefined,
     is_concurrent |-> Len(task.providers) > 1,
     updated_at |-> task.updatedAt,
     poll_after_ms |-> Num(REVIEW_TASK_POLL_AFTER_MS),
     report |-> Str(""),
     provider_reports |-> Undefined]

\* the object returned for a pending task; a property the object does not
\* have reads as undefined
PendingOutput(task) ==
    [task_id |-> task.id,
     status |-> "pending",
     providers |-> task.providers,
     ready_providers |-> {},
     pending_providers |-> task.providers,
     failed_providers |-> Undefined,
     provider_errors |-> Undefined,
     summary |-> Undefined,
     output_path |-> Undefined,
     is_concurrent |-> Len(task.providers) > 1,
     updated_at |-> task.updatedAt,
     poll_after_ms |-> Num(REVIEW_TASK_POLL_AFTER_MS),
     report |-> Undefined,
     provider_reports |-> Undefined]

\* the object built for a task that is not pending, before the reports
StatusOutput(task) ==
    LET readyProviders == ReadyProviders(task)
        failedProviders == FailedProviders(task)
        summaryResult == SummaryResult(task)
    IN [task_id |-> task.id,
        status |-> task.status,
        providers |-> task.providers,
        ready_providers |-> readyProviders,
        pending_providers |-> PendingProviders(task),
        failed_providers |-> IF failedProviders # {}
                             THEN [t |-> "array", keys |-> failedProviders]
                             ELSE Undefined,
        provider_errors |-> IF failedProviders # {} THEN task.errors ELSE Undefined,
        summary |-> IF summaryResult # Undefined
                    THEN buildTaskSummary(summaryResult) ELSE Undefined,
        output_path |-> task.outputPath,
        is_concurrent |-> Len(task.providers) > 1,
        updated_at |-> task.updatedAt,
        poll_after_ms |-> PollAfterMs(task.status),
        report |-> Undefined,
        provider_reports |-> Undefined]

\* faulty variant: several ready reviewers get no individual reports
WithReports_SingleOnly(output, task) ==
    LET readyProviders == ReadyProviders(task)
    IN IF readyProviders = {} THEN output
       ELSE IF /\ IsTerminal(task.status)
               /\ task.combinedResult # Undefined
               /\ task.report # Undefined
       THEN [output EXCEPT !.report = task.report]
       ELSE IF Cardinality(readyProviders) = 1
       THEN [output EXCEPT !.report =
                generateMarkdownReport(task.results[CHOOSE p \in readyProviders : TRUE])]
       ELSE output

\* the reports of the snapshot: the combined report of a finalized task,
\* else the report of the only ready reviewer, else one report per ready
\* reviewer
WithReports(output, task) ==
    LET readyProviders == ReadyProviders(task)
    IN IF readyProviders = {} THEN output
       ELSE IF /\ IsTerminal(task.status)
               /\ task.combinedResult # Undefined
               /\ task.report # Undefined
       THEN [output EXCEPT !.report = task.report]
       ELSE IF Cardinality(readyProviders) = 1
       THEN [output EXCEPT !.report =
                generateMarkdownReport(task.results[CHOOSE p \in readyProviders : TRUE])]
       ELSE [output EXCEPT !.provider_reports =
                [p \in readyProviders |-> generateMarkdownReport(task.results[p])]]

buildTaskStatusOutput(task) ==
    IF task.status = "pending"
    THEN PendingOutput(task)
    ELSE WithReports(StatusOutput(task), task)

\* ---- inputs of the snapshot
SnapshotScores == {3, 8}

\* the record of a reviewer
ProviderResult(provider, score) ==
    [overall_score |-> score,
     stats |-> [total_issues |-> 0],
     meta |-> [files_reviewed |-> 1, duration_ms |-> 0, provider |-> provider]]

\* a task whose reviewers have the given outcomes ("pending", "ready" or
\* "failed"), with the status updateTaskStatus gives it; the optional
\* fields are absent and read as undefined
SettledTask(providers, outcome, score, output) ==
    LET with(o) == {providers[i] : i \in {j \in 1..Len(providers) : outcome[j] = o}}
        index(p) == CHOOSE i \in 1..Len(providers) : providers[i] = p
    IN updateTaskStatus(
           [NewTask(1, providers, output, 0) EXCEPT
               !.results = [p \in with("ready") |-> ProviderResult(p, score[index(p)])],
               !.errors = [p \in with("failed") |-> "error"],
               !.combinedResult = Undefined,
               !.report = Undefined,
               !.outputPath = Undefined],
           0)

\* the task after its finalization: the only result as it is, or the results
\* combined, and the report of it
FinalizedTask(task, written) ==
    LET ready == ReadyProviders(task)
        only == task.results[CHOOSE p \in ready : TRUE]
        combined ==
            IF Cardinality(ready) = 1 THEN only
            ELSE [overall_score |->
                      MathRound(task.results["openai"].overall_score
                                    + task.results["gemini"].overall_score, 2),
                  stats |-> [total_issues |-> 0],
                  meta |-> [files_reviewed |-> 1, duration_ms |-> 0,
                            provider |-> "openai + gemini"]]
    IN [task EXCEPT
           !.combinedResult = combined,
           !.report = IF Cardinality(ready) = 1 THEN generateMarkdownReport(only)
                      ELSE [by |-> "generateCombinedMarkdownReport", of |-> combined],
           !.outputPath = IF written THEN Str("report.md") ELSE Undefined]

InitSnapshot ==
    /\ InitIdle
    /\ \E requested \in ProviderLists, output \in {"inline", "file"} :
           LET providers == normalizeProviders(requested)
           IN /\ providers # <<>>
              /\ \E outcome \in [1..Len(providers) -> {"pending", "ready", "failed"}],
                    score \in [1..Len(providers) -> SnapshotScores] :
                     LET task == SettledTask(providers, outcome, score, output)
                     IN \/ proc = Call("buildTaskStatusOutput", task)
                        \/ /\ IsTerminal(task.status)
                           /\ ReadyProviders(task) # {}
                           /\ \E written \in BOOLEAN :
                                  /\ written => output = "file"
                                  /\ proc = Call("buildTaskStatusOutput",
                                                 FinalizedTask(task, written))

SnapshotReturns ==
    /\ proc.fn = "buildTaskStatusOutput"
    /\ proc.phase = "called"
    /\ proc' = [proc EXCEPT !.phase = "returned",
                            !.output = buildTaskStatusOutput(proc.input)]
    /\ UNCHANGED <<tasks, reviewTaskStore, now, nextCleanupAt, nextTaskId, orch, sync>>

NextSnapshot == SnapshotReturns

SpecSnapshot == InitSnapshot /\ [][NextSnapshot]_vars

\* ------------------------------------------------ reviewer client (core/llm)
\* DEFAULT_RETRY_CONFIG.maxRetries of BaseLLMProvider.chat
maxRetries == 3

\* the request retries of OpenAIProvider.doChat
MAX_RETRIES == 2

\* what a fetch settles with: a response with its status and error body, a
\* rejection by the abort of the timeout, or a rejection by the network
HttpStatuses == {200, 400, 401, 429, 500}

ErrorBodies == {"{}", "unauthorized"}

Response(status, body) == [kind |-> "response", status |-> status, body |-> body]

Aborted == [kind |-> "abort", status |-> 0, body |-> ""]

FetchFailed == [kind |-> "network", status |-> 0, body |-> ""]

FetchOutcomes(provider) ==
    {Response(200, "json")}
        \cup {Response(status, body) : status \in HttpStatuses \ {200}, body \in ErrorBodies}
        \cup {FetchFailed}
        \cup (IF provider = "openai" THEN {Aborted} ELSE {})

\* the errors: what the message is made of
HttpError(provider, status, body) ==
    [name |-> "Error", by |-> provider, text |-> "API error", status |-> status,
     body |-> body]

\* the error fetch rejects with
FetchError(outcome) ==
    IF outcome.kind = "abort"
    THEN [name |-> "AbortError", by |-> "fetch", text |-> "aborted", status |-> 0, body |-> ""]
    ELSE [name |-> "TypeError", by |-> "fetch", text |-> "fetch failed", status |-> 0,
          body |-> ""]

NotConfigured(provider) ==
    [name |-> "Error", by |-> provider, text |-> "not configured", status |-> 0, body |-> ""]

\* message.toLowerCase() includes one of the listed phrases: of the messages
\* here only an error body can
isNonRetryableError(error) == error.body = "unauthorized"

\* the try block of one request of OpenAIProvider.doChat
OpenAITry(attempt, outcome) ==
    IF outcome.kind # "response"
    THEN [do |-> "throw", error |-> FetchError(outcome)]
    ELSE IF outcome.status = 200
    THEN [do |-> "return", error |-> Null]
    ELSE IF (outcome.status = 429 \/ outcome.status >= 500) /\ attempt < MAX_RETRIES
    THEN [do |-> "continue", error |-> HttpError("openai", outcome.status, outcome.body)]
    ELSE [do |-> "throw", error |-> HttpError("openai", outcome.status, outcome.body)]

\* the catch block: the error is kept as lastError, a timeout and a network
\* error under their own messages, and the request is repeated while
\* attempt < MAX_RETRIES
OpenAICatch(attempt, error) ==
    LET lastError ==
            IF error.name = "AbortError"
            THEN [name |-> "Error", by |-> "openai", text |-> "timeout", status |-> 0,
                  body |-> ""]
            ELSE IF error.text = "fetch failed"
            THEN [name |-> "Error", by |-> "openai", text |-> "network error: fetch failed",
                  status |-> 0, body |-> ""]
            ELSE error
    IN [do |-> IF attempt < MAX_RETRIES THEN "continue" ELSE "exit", error |-> lastError]

\* one iteration of the request loop of OpenAIProvider.doChat
OpenAIRequest(attempt, outcome) ==
    LET tried == OpenAITry(attempt, outcome)
    IN IF tried.do = "throw" THEN OpenAICatch(attempt, tried.error) ELSE tried

\* GeminiProvider.doChat: one request
GeminiRequest(outcome) ==
    IF outcome.kind # "response"
    THEN [do |-> "exit", error |-> FetchError(outcome)]
    ELSE IF outcome.status = 200
    THEN [do |-> "return", error |-> Null]
    ELSE [do |-> "exit", error |-> HttpError("gemini", outcome.status, outcome.body)]

\* faulty variant: the loop runs once more
ChatLoopContinues_OneMore(attempt) == attempt <= maxRetries + 1

\* attempt <= this.retryConfig.maxRetries
ChatLoopContinues(attempt) == attempt <= maxRetries

\* chat() is called on a provider
ChatCall(provider, configured) ==
    [fn |-> "chat",
     phase |-> "called",
     provider |-> provider,
     configured |-> configured,
     attempt |-> 0,
     request |-> 0,
     attempts |-> 0,
     requests |-> 0,
     failures |-> 0,
     lastError |-> Null,
     lastOutcome |-> Null,
     output |-> Undefined]

InitChat ==
    /\ InitIdle
    /\ \E provider \in LLMProviderType, configured \in BOOLEAN :
           proc = ChatCall(provider, configured)

Unchanged == UNCHANGED <<tasks, reviewTaskStore, now, nextCleanupAt, nextTaskId, orch, sync>>

\* the call of doChat of the attempt: the first request is issued
DoChat(call) ==
    [call EXCEPT !.phase = "fetching", !.attempts = @ + 1, !.request = 0, !.requests = 1]

\* chat() up to its first await
ChatStarts ==
    /\ proc.fn = "chat"
    /\ proc.phase = "called"
    /\ proc' = IF ~proc.configured
               THEN [proc EXCEPT !.phase = "rejected",
                                 !.output = NotConfigured(proc.provider)]
               ELSE IF ChatLoopContinues(0) THEN DoChat(proc)
               ELSE [proc EXCEPT !.phase = "rejected", !.output = proc.lastError]
    /\ Unchanged

\* doChat rejected with error: the catch block of chat(), then the next turn
\* of its loop
ChatCatch(call, error) ==
    LET caught == [call EXCEPT !.lastError = error, !.failures = @ + 1]
    IN IF isNonRetryableError(error)
       THEN [caught EXCEPT !.phase = "rejected", !.output = error]
       ELSE IF call.attempt < maxRetries
       THEN [caught EXCEPT !.phase = "sleeping"]
       ELSE IF ChatLoopContinues(call.attempt + 1)
       THEN DoChat([caught EXCEPT !.attempt = @ + 1])
       ELSE [caught EXCEPT !.phase = "rejected", !.output = error]

\* the request in flight settles, and the code runs up to its next await
FetchSettles ==
    /\ proc.fn = "chat"
    /\ proc.phase = "fetching"
    /\ \E outcome \in FetchOutcomes(proc.provider) :
           LET step == IF proc.provider = "openai"
                       THEN OpenAIRequest(proc.request, outcome)
                       ELSE GeminiRequest(outcome)
               settled == [proc EXCEPT !.lastOutcome = outcome]
           IN proc' =
                  CASE step.do = "return" ->
                           [settled EXCEPT !.phase = "resolved",
                                           !.output = [content |-> "json",
                                                       attempt |-> proc.attempts,
                                                       request |-> proc.requests]]
                    [] step.do = "continue" ->
                           [settled EXCEPT !.phase = "delaying"]
                    [] OTHER -> ChatCatch(settled, step.error)
    /\ Unchanged

\* this.delay(...) of doChat elapses: the next request is issued
DelayElapses ==
    /\ proc.fn = "chat"
    /\ proc.phase = "delaying"
    /\ proc' = [proc EXCEPT !.phase = "fetching", !.request = @ + 1, !.requests = @ + 1]
    /\ Unchanged

\* this.sleep(delay) of chat() elapses: the next turn of the loop
SleepElapses ==
    /\ proc.fn = "chat"
    /\ proc.phase = "sleeping"
    /\ proc' = IF ChatLoopContinues(proc.attempt + 1)
               THEN DoChat([proc EXCEPT !.attempt = @ + 1])
               ELSE [proc EXCEPT !.phase = "rejected", !.output = proc.lastError]
    /\ Unchanged

NextChat ==
    \/ ChatStarts
    \/ FetchSettles
    \/ DelayElapses
    \/ SleepElapses

SpecChat == InitChat /\ [][NextChat]_vars

\* every request settles and every timer fires
SpecChatFair == SpecChat /\ WF_vars(NextChat)

\* ------------------------------------------------------------------ claims
Created == {k \in TaskIds : tasks[k] # NoTask}

Stored == SeqToSet(reviewTaskStore)

Successes(k) == Cardinality(DOMAIN tasks[k].results)

Failures(k) == Cardinality(DOMAIN tasks[k].errors)

Requested(k) == Len(tasks[k].providers)

Age(k) == now - tasks[k].updatedAt

\* C1: in every observable state of a task its status is the transition
\* rule applied to its contents: pending if s+f=0, partial if 0<s+f<n,
\* completed if s+f=n and s>0, failed if s+f=n and s=0.
C1_StatusMatchesContents ==
    \A k \in Created :
        LET s == Successes(k)
            f == Failures(k)
            n == Requested(k)
        IN /\ (s + f = 0) => tasks[k].status = "pending"
           /\ (0 < s + f /\ s + f < n) => tasks[k].status = "partial"
           /\ (s + f = n /\ s > 0) => tasks[k].status = "completed"
           /\ (s + f = n /\ s = 0) => tasks[k].status = "failed"

C1_Witness ==
    \E k \in Created :
        /\ Requested(k) = 2
        /\ Successes(k) = 1
        /\ Failures(k) = 1
        /\ tasks[k].status = "completed"

\* C2: the status of a task only moves forward, pending -> partial ->
\* completed or failed; a terminal status never changes, partial never goes
\* back to pending, and pending reaches a terminal status in one step only
\* when exactly one reviewer was requested.
C2_StatusOnlyMovesForward ==
    [][\A k \in Created :
          LET before == tasks[k].status
              after == tasks'[k].status
          IN \/ after = before
             \/ before = "pending" /\ after = "partial"
             \/ before = "partial" /\ IsTerminal(after)
             \/ before = "pending" /\ IsTerminal(after) /\ Requested(k) = 1]_vars

C2_Witness ==
    /\ \E k \in Created : Requested(k) = 2 /\ tasks[k].status = "failed"
    /\ \E k \in Created : Requested(k) = 1 /\ tasks[k].status = "completed"

\* C3: the keys of results and the keys of errors of a task are disjoint,
\* and both are among the task's requested providers.
C3_ResultAndErrorKeysDisjoint ==
    \A k \in Created :
        /\ (DOMAIN tasks[k].results) \cap (DOMAIN tasks[k].errors) = {}
        /\ (DOMAIN tasks[k].results) \cup (DOMAIN tasks[k].errors)
               \subseteq SeqToSet(tasks[k].providers)

C3_Witness ==
    \E k \in Created :
        /\ DOMAIN tasks[k].results = {"gemini"}
        /\ DOMAIN tasks[k].errors = {"openai"}

\* C5: a task is finalized exactly once, at its transition to a terminal
\* status: one finalization when all reviewers have settled and none before,
\* at most one combined result and report, at most one report write.
C5_FinalizedExactlyOnce ==
    \A k \in Created :
        LET settledAll == Successes(k) + Failures(k) = Requested(k)
            combined == settledAll /\ Successes(k) > 0
        IN /\ orch[k].finalizeCount = IF settledAll THEN 1 ELSE 0
           /\ orch[k].combineCount = IF combined THEN 1 ELSE 0
           /\ orch[k].writeCount = IF combined /\ tasks[k].output = "file" THEN 1 ELSE 0
           /\ (tasks[k].combinedResult = "set") = combined
           /\ (tasks[k].report = "set") = combined

C5_Witness ==
    \E k \in Created :
        /\ Requested(k) = 2
        /\ Successes(k) = 2
        /\ tasks[k].output = "file"
        /\ orch[k].writeCount = 1
        /\ tasks[k].outputPath = "set"

\* C7: the cleanup (TTL sweep and capacity eviction) never removes a task
\* whose status is still pending or partial.
C7_CleanupKeepsUnsettledTasks ==
    [][CleanupTimer =>
          \A k \in Stored :
              tasks[k].status \in {"pending", "partial"}
                  => k \in SeqToSet(reviewTaskStore')]_vars

\* C8: after cleanupReviewTasks at time now no stored task is older than the
\* TTL, and when the store held no more than the cap every task no older
\* than the TTL is still stored.
C8_SweepRemovesExactlyExpired ==
    [][CleanupTimer =>
          /\ \A k \in SeqToSet(reviewTaskStore') : Age(k) <= REVIEW_TASK_TTL_MS
          /\ Len(reviewTaskStore) <= REVIEW_TASK_MAX_COUNT
                 => \A k \in Stored :
                        Age(k) <= REVIEW_TASK_TTL_MS => k \in SeqToSet(reviewTaskStore')]_vars

C8_Witness ==
    /\ nextCleanupAt > now
    /\ \E k \in Created \ Stored : Age(k) > REVIEW_TASK_TTL_MS
    /\ \E k \in Stored : Age(k) = REVIEW_TASK_TTL_MS

\* C9: after cleanupReviewTasks the store holds at most the cap; when more
\* than the cap survive the TTL sweep exactly the excess is evicted, and no
\* evicted task was updated later than a task that stays.
C9_EvictsLeastRecentlyUpdated ==
    [][CleanupTimer =>
          LET fresh == {k \in Stored : Age(k) <= REVIEW_TASK_TTL_MS}
              kept == SeqToSet(reviewTaskStore')
              evicted == fresh \ kept
          IN /\ Cardinality(kept) <= REVIEW_TASK_MAX_COUNT
             /\ Cardinality(fresh) > REVIEW_TASK_MAX_COUNT
                    => /\ Cardinality(evicted) = Cardinality(fresh) - REVIEW_TASK_MAX_COUNT
                       /\ \A e \in evicted, k \in kept :
                              tasks[e].updatedAt <= tasks[k].updatedAt]_vars

C9_Witness ==
    /\ nextCleanupAt > now
    /\ Len(reviewTaskStore) = REVIEW_TASK_MAX_COUNT
    /\ \E e \in Created \ Stored, k \in Stored :
           /\ Age(e) <= REVIEW_TASK_TTL_MS
           /\ tasks[e].updatedAt < tasks[k].updatedAt

\* C10: a sweep runs at the start of every public store operation, so
\* getTask never returns a task older than the TTL.
C10_GetTaskNeverReturnsExpired ==
    \A k \in TaskIds :
        getTask(k) # NoTask => now - getTask(k).updatedAt <= REVIEW_TASK_TTL_MS

\* C4: every requested reviewer is invoked at most once per review, and the
\* entry recorded for a reviewer is never overwritten: a finished review
\* holds one entry per call it made.
C4_EachReviewerInvokedOnce ==
    /\ sync.phase # "idle" =>
           \A p \in LLMProviderType : Invocations(sync.providers, p) <= 1
    /\ (sync.phase = "resolved" /\ sync.concurrent) =>
           Cardinality(DOMAIN sync.providerResults) = Len(sync.providers)

\* C6: when several reviewers are requested and all have settled, a review
\* in which at least one of them succeeded has not ended as a failure: only
\* zero successes make the review fail.
C6_OneFailureDoesNotFailReview ==
    (/\ sync.phase = "rejected"
     /\ sync.concurrent
     /\ \A p \in LLMProviderType : Invocations(sync.providers, p) <= 1
     /\ \A i \in DOMAIN sync.calls : sync.calls[i] # "pending")
        => \A i \in DOMAIN sync.calls : sync.calls[i] = "rejected"

\* C11: getTask returns nothing for an id that was never saved and for an id
\* whose task was removed by the sweep, the eviction or deleteTask, and it
\* returns the stored task for every id the store holds.
C11_GetTaskFindsExactlyStored ==
    \A k \in TaskIds :
        /\ k >= nextTaskId => getTask(k) = NoTask
        /\ (k < nextTaskId /\ k \notin Stored) => getTask(k) = NoTask
        /\ k \in Stored => (getTask(k) = tasks[k] /\ getTask(k).id = k)

C11_Witness ==
    /\ \E k \in Created : k \notin Stored /\ getTask(k) = NoTask
    /\ \E k \in Stored : getTask(k).id = k

\* C12: saveTask of a task whose id the store already holds fails and leaves
\* the stored task unchanged; for an id the store does not hold it inserts
\* the task.
C12_SaveFailsOnIdCollision ==
    [][\A task \in SavedTasks :
          SaveTask(task) =>
              IF task.id \in Stored
              THEN tasks'[task.id] = tasks[task.id]
              ELSE /\ task.id \in SeqToSet(reviewTaskStore')
                   /\ tasks'[task.id] = task]_vars

\* C13: a review requested with zero reviewers is rejected at its start: no
\* task with an empty provider list is ever created or stored, so no task
\* sits in pending with n = 0.
C13_NoTaskWithoutReviewers ==
    \A k \in TaskIds :
        (tasks[k] # NoTask \/ k \in Stored) => Requested(k) >= 1

C13_Witness ==
    /\ nextTaskId > 1
    /\ \A k \in TaskIds : k < nextTaskId => (k \in Stored /\ Requested(k) >= 1)
    /\ \E k \in Stored : tasks[k].status = "pending" /\ Requested(k) = 1

\* C14: when a review has ended with exactly one successful reviewer (one
\* requested, or several requested and all the others failed), the result
\* and the report handed to the client are that reviewer's own result and
\* report, not a merged record.
C14_SingleSuccessPassesThrough ==
    LET fulfilled == {i \in DOMAIN sync.calls : sync.calls[i] = "fulfilled"}
    IN (/\ sync.phase \in {"resolved", "rejected"}
        /\ \A p \in LLMProviderType : Invocations(sync.providers, p) <= 1
        /\ \A i \in DOMAIN sync.calls : sync.calls[i] # "pending"
        /\ Cardinality(fulfilled) = 1)
           => \E i \in fulfilled :
                  /\ sync.phase = "resolved"
                  /\ sync.result = IndividualResult(i)
                  /\ sync.report = IndividualReport(i)

\* the composite key of a finding: file, starting line (0 when absent), title
CompositeKey(issue) == <<issue.file, OrElse(issue.line_start, 0), issue.title>>

Merged == proc.fn = "combineReviewResults" /\ proc.phase = "returned"

MergeInput == AllIssues(proc.input.results, Len(proc.input.results))

\* C15: in the merged record no two findings share the composite key (file,
\* starting line or 0 when absent, title), and the finding kept for a key is
\* its first occurrence in reviewer order then finding order, with all of
\* its own fields.
C15_FirstOccurrenceOfKeySurvives ==
    Merged =>
        LET out == proc.output.issues
            all == MergeInput
        IN /\ \A i, j \in 1..Len(out) :
                  CompositeKey(out[i]) = CompositeKey(out[j]) => i = j
           /\ \A j \in 1..Len(out) :
                  \E i \in 1..Len(all) :
                      /\ all[i] = out[j]
                      /\ \A h \in 1..(i - 1) : CompositeKey(all[h]) # CompositeKey(out[j])

C15_Witness ==
    /\ Merged
    /\ Len(proc.input.results) = 2
    /\ \E a \in 1..Len(proc.input.results[1].issues),
          b \in 1..Len(proc.input.results[2].issues) :
           LET first == proc.input.results[1].issues[a]
               later == proc.input.results[2].issues[b]
           IN /\ first.line_start = Undefined
              /\ later.line_start = Num(0)
              /\ CompositeKey(first) = CompositeKey(later)
              /\ first.severity # later.severity
              /\ proc.output.issues = <<first>>

\* C16: findings are duplicates only if file, starting line and title are
\* all equal: every distinct composite key among the input findings has
\* exactly one finding in the merged record, so findings that differ in a
\* component of the key all survive.
C16_EveryKeyKeepsOneFinding ==
    Merged =>
        LET out == proc.output.issues
            all == MergeInput
        IN \A i \in 1..Len(all) :
               Cardinality({j \in 1..Len(out) :
                               CompositeKey(out[j]) = CompositeKey(all[i])}) = 1

InputScores == [i \in DOMAIN proc.input.results |-> proc.input.results[i].overall_score]

InputTokens ==
    [i \in DOMAIN proc.input.results |-> OrElse(proc.input.results[i].meta.tokens_used, 0)]

InputDurations ==
    [i \in DOMAIN proc.input.results |-> proc.input.results[i].meta.duration_ms]

\* the sum of the values of a function
RECURSIVE Total(_)
Total(f) ==
    IF DOMAIN f = {} THEN 0
    ELSE LET i == CHOOSE i \in DOMAIN f : TRUE
         IN f[i] + Total([j \in (DOMAIN f) \ {i} |-> f[j]])

\* C17: for a non-empty list of records the merged overall score is the
\* mean of the reviewers' scores rounded to the nearest integer ({8,6} gives
\* 7, {9,8,8} gives 8), and for scores in [1,10] it lies in [1,10].
C17_ScoreIsRoundedMean ==
    Merged =>
        LET n == Len(proc.input.results)
            sum == Total(InputScores)
            score == proc.output.overall_score
        IN /\ score \in Int
           /\ 2 * n * score - n <= 2 * sum
           /\ 2 * sum <= 2 * n * score + n
           /\ (\A i \in 1..n : InputScores[i] \in MinScore..MaxScore)
                  => score \in MinScore..MaxScore
           /\ InputScores = <<8, 6>> => score = 7
           /\ InputScores = <<9, 8, 8>> => score = 8

C17_Witness ==
    /\ Merged
    /\ InputScores = <<9, 8, 8>>
    /\ proc.output.overall_score = 8

\* C18 as stated: the merged tokens_used is the sum of the reviewers'
\* tokens_used (absent counted as 0) and the merged duration_ms is the sum
\* of the reviewers' duration_ms.
C18_TokensAndDurationsSummed ==
    Merged =>
        /\ proc.output.meta.tokens_used = Num(Total(InputTokens))
        /\ proc.output.meta.duration_ms = Total(InputDurations)

\* C18 amended: the merged tokens_used is the sum of the reviewers'
\* tokens_used (absent counted as 0), and the merged duration_ms is the time
\* elapsed from the start of the review to the merge.
C18_TokensSummedDurationElapsed ==
    Merged =>
        /\ proc.output.meta.tokens_used = Num(Total(InputTokens))
        /\ proc.output.meta.duration_ms = proc.input.now

C18_Witness ==
    /\ Merged
    /\ Len(proc.input.results) = 2
    /\ proc.input.results[1].meta.tokens_used = Num(3)
    /\ proc.input.results[2].meta.tokens_used = Undefined
    /\ proc.output.meta.tokens_used = Num(3)
    /\ proc.input.results[1].meta.duration_ms = 1
    /\ proc.input.results[2].meta.duration_ms = 2
    /\ proc.output.meta.duration_ms = 2

Validated == proc.fn = "validateAndEnrichResult" /\ proc.phase = "returned"

RawInput ==
    IF proc.input.parsed.issues.t = "array" THEN proc.input.parsed.issues.items ELSE <<>>

\* strict validation fails, and only fields the repair defaults are at
\* fault: severity or category missing or not allowed, file, title or
\* description missing
OnlyDefaultedFieldsAtFault(rawIssue) ==
    /\ rawIssue.t = "object"
    /\ ~safeParse(rawIssue).success
    /\ rawIssue.line_start.t \in {"undefined", "number"}
    /\ rawIssue.file.t \in {"undefined", "string"}
    /\ rawIssue.title.t \in {"undefined", "string"}
    /\ rawIssue.description.t \in {"undefined", "string"}

\* the finding with the defaults in the places named by missing, the rest as
\* it came
Defaulted(rawIssue, missing) ==
    [file |-> IF rawIssue.file \in missing THEN "unknown" ELSE rawIssue.file.s,
     line_start |-> rawIssue.line_start,
     severity |-> IF Includes(Severities, rawIssue.severity)
                  THEN rawIssue.severity.s ELSE "info",
     category |-> IF Includes(IssueCategories, rawIssue.category)
                  THEN rawIssue.category.s ELSE "quality",
     title |-> IF rawIssue.title \in missing THEN UnknownTitle ELSE rawIssue.title.s,
     description |-> IF rawIssue.description \in missing
                     THEN "" ELSE rawIssue.description.s]

AsRaw(issue) ==
    RawIssue(Str(issue.file), issue.line_start, Str(issue.severity),
             Str(issue.category), Str(issue.title), Str(issue.description))

Occurrences(seq, e) == Cardinality({i \in 1..Len(seq) : seq[i] = e})

\* C20: validation never fails because of a malformed finding: a finding
\* that still fails validation after the repair is omitted from the record,
\* and every other finding of the output, in particular every finding that
\* passes strict validation, is in the record unchanged.
C20_MalformedFindingOnlyDropped ==
    (proc.fn \in {"validateAndEnrichResult", "validateAndEnrichResultLocal"}
         /\ proc.phase = "returned")
        => /\ proc.output # TypeError
           /\ LET issues == proc.output.issues
                  out == IF proc.fn = "validateAndEnrichResult"
                         THEN [j \in 1..Len(issues) |-> AsRaw(issues[j])]
                         ELSE issues
              IN /\ \A j \in 1..Len(out) : safeParse(out[j]).success
                 /\ Len(out) = Cardinality({i \in 1..Len(RawInput) :
                                               \/ safeParse(RawInput[i]).success
                                               \/ safeParse(fixedIssue(RawInput[i])).success})
                 /\ \A i \in 1..Len(RawInput) :
                        safeParse(RawInput[i]).success
                            => Occurrences(out, RawInput[i])
                                   >= Occurrences(RawInput, RawInput[i])

ValidatedByEither ==
    /\ proc.fn \in {"validateAndEnrichResult", "validateAndEnrichResultLocal"}
    /\ proc.phase = "returned"
    /\ proc.output # TypeError

\* C21: every record produced by validation has an overall score in
\* [1,10]: a raw score that is not a number or lies outside [1,10] becomes
\* 5, a number within [1,10] is kept.
C21_ScoreDefaultsToFive ==
    ValidatedByEither =>
        LET raw == proc.input.parsed.overall_score
            score == proc.output.overall_score
        IN /\ score \in MinScore..MaxScore
           /\ (raw.t = "number" /\ raw.n \in MinScore..MaxScore) => score = raw.n
           /\ (raw.t = "number" /\ raw.n \notin MinScore..MaxScore) => score = 5
           /\ raw \in {Undefined, Null, Str(""), Str("abc")} => score = 5

\* a record was produced, by either validation or by the merger
Produced == ValidatedByEither \/ Merged

\* the value of a field of a finding of the produced record; the private
\* validation hands out the raw finding
Field(issue, name) ==
    IF proc.fn = "validateAndEnrichResultLocal"
    THEN IF issue[name].t = "string" THEN issue[name].s ELSE "(no string)"
    ELSE issue[name]

\* C22: in every validated and every merged record stats.total_issues is
\* the number of findings of the record, each by_severity and by_category
\* count is the number of its findings with that severity or category, so
\* each family of counts sums to total_issues; the counts of the raw input
\* are ignored.
C22_StatsRecomputedFromFindings ==
    Produced =>
        LET issues == proc.output.issues
            stats == proc.output.stats
            with(name, value) == {i \in 1..Len(issues) : Field(issues[i], name) = value}
        IN /\ stats.total_issues = Len(issues)
           /\ \A severity \in DOMAIN stats.by_severity :
                  stats.by_severity[severity] = Cardinality(with("severity", severity))
           /\ \A category \in DOMAIN stats.by_category :
                  stats.by_category[category] = Cardinality(with("category", category))
           /\ Total(stats.by_severity) = stats.total_issues
           /\ Total(stats.by_category) = stats.total_issues

\* the findings before the record's sort: the validated ones, the raw ones
\* of the private validation, or the deduplicated ones of the merger
Unsorted ==
    CASE proc.fn = "validateAndEnrichResult" -> ValidateIssues(RawInput, Len(RawInput))
      [] proc.fn = "validateAndEnrichResultLocal" -> RawInput
      [] OTHER -> MergeIssues(MergeInput, Len(MergeInput))

SeverityRank(severity) ==
    CASE severity = "critical" -> 1
      [] severity = "major" -> 2
      [] severity = "minor" -> 3
      [] severity = "info" -> 4

\* C23: the findings of every validated and every merged record are ordered
\* critical < major < minor < info, and the findings of one severity keep
\* the order they had before the sort (for the merged record: the
\* first-occurrence order of the deduplicated findings).
C23_SortedBySeverityStable ==
    Produced =>
        LET issues == proc.output.issues
            of(seq, severity) ==
                SelectSeq(seq, LAMBDA issue : Field(issue, "severity") = severity)
        IN /\ Len(issues) = Len(Unsorted)
           /\ \A i, j \in 1..Len(issues) :
                  (/\ i < j
                   /\ Field(issues[i], "severity") \in Severities
                   /\ Field(issues[j], "severity") \in Severities)
                      => SeverityRank(Field(issues[i], "severity"))
                             <= SeverityRank(Field(issues[j], "severity"))
           /\ \A severity \in Severities : of(issues, severity) = of(Unsorted, severity)

C23_Witness ==
    /\ Validated
    /\ Len(Unsorted) = 3
    /\ Unsorted[1].severity = "info"
    /\ Unsorted[2].severity = "minor"
    /\ Unsorted[3].severity = "minor"
    /\ Unsorted[2] # Unsorted[3]
    /\ proc.output.issues = <<Unsorted[2], Unsorted[3], Unsorted[1]>>
\* a snapshot was built
Snapshot ==
    /\ proc.fn = "buildTaskStatusOutput"
    /\ proc.phase = "returned"

Has(field) == proc.output[field] # Undefined

\* the task is finalized: it carries its combined result and report
Finalized ==
    /\ proc.input.combinedResult # Undefined
    /\ proc.input.report # Undefined

\* C24: in every snapshot the ready, pending and failed reviewers (an absent
\* list counting as empty) are pairwise disjoint and together are the
\* requested reviewers; the ready ones are the keys of the results, the
\* failed ones the keys of the errors.
C24_ProvidersPartitioned ==
    Snapshot =>
        LET task == proc.input
            ready == proc.output.ready_providers
            pending == SeqToSet(proc.output.pending_providers)
            failed == IF Has("failed_providers")
                      THEN proc.output.failed_providers.keys ELSE {}
        IN /\ ready \cap pending = {}
           /\ ready \cap failed = {}
           /\ pending \cap failed = {}
           /\ ready \cup pending \cup failed = SeqToSet(task.providers)
           /\ ready = DOMAIN task.results
           /\ failed = DOMAIN task.errors

C24_Witness ==
    /\ Snapshot
    /\ proc.output.ready_providers = {"gemini"}
    /\ Has("failed_providers")
    /\ proc.output.failed_providers.keys = {"openai"}
    /\ proc.output.pending_providers = <<>>

C24_WitnessPartial ==
    /\ Snapshot
    /\ proc.output.status = "partial"
    /\ ~Has("failed_providers")
    /\ proc.output.ready_providers = {"openai"}
    /\ proc.output.pending_providers = <<"gemini">>

\* C25: whenever at least one reviewer is ready the snapshot contains the
\* numeric summary, whatever the number of ready reviewers and whether or
\* not the task is finalized.
C25_SummaryWheneverReady ==
    (Snapshot /\ DOMAIN proc.input.results # {}) => Has("summary")

\* C26: a snapshot of a task that is not finalized and has k >= 1 ready
\* reviewers carries the individual report of every ready reviewer: as
\* report when k = 1, as provider_reports with exactly the ready reviewers as
\* keys when k >= 2, also when siblings failed or are pending; once the task
\* is finalized the snapshot carries the combined report instead.
C26_IndividualReportsUntilFinalized ==
    (Snapshot /\ DOMAIN proc.input.results # {}) =>
        LET task == proc.input
            ready == DOMAIN task.results
        IN /\ (~Finalized /\ Cardinality(ready) = 1) =>
                  /\ \E p \in ready :
                         proc.output.report = generateMarkdownReport(task.results[p])
                  /\ ~Has("provider_reports")
           /\ (~Finalized /\ Cardinality(ready) >= 2) =>
                  /\ Has("provider_reports")
                  /\ DOMAIN proc.output.provider_reports = ready
                  /\ \A p \in ready :
                         proc.output.provider_reports[p]
                             = generateMarkdownReport(task.results[p])
                  /\ ~Has("report")
           /\ Finalized =>
                  /\ proc.output.report = task.report
                  /\ ~Has("provider_reports")

C26_WitnessOne ==
    /\ Snapshot
    /\ ~Finalized
    /\ proc.input.status = "partial"
    /\ DOMAIN proc.input.results = {"gemini"}
    /\ Has("report")

C26_WitnessSeveral ==
    /\ Snapshot
    /\ ~Finalized
    /\ Cardinality(DOMAIN proc.input.results) = 2
    /\ Has("provider_reports")

C26_WitnessFinalized ==
    /\ Snapshot
    /\ Finalized
    /\ Cardinality(DOMAIN proc.input.results) = 2
    /\ proc.output.report = proc.input.report

\* C27: the snapshot carries poll_after_ms exactly when the status is
\* pending or partial.
C27_PollIntervalIffNotTerminal ==
    Snapshot => (Has("poll_after_ms") <=> proc.output.status \in {"pending", "partial"})

C27_Witness ==
    /\ Snapshot
    /\ proc.output.status = "partial"
    /\ proc.output.poll_after_ms = Num(REVIEW_TASK_POLL_AFTER_MS)

C27_WitnessTerminal ==
    /\ Snapshot
    /\ proc.output.status = "completed"
    /\ ~Has("poll_after_ms")

\* C28: the snapshot of a pending task has no report, provider_reports,
\* summary, provider_errors, failed_providers or output_path; its
\* ready_providers are empty and its pending_providers are the requested
\* reviewers.
C28_PendingSnapshotLight ==
    (Snapshot /\ proc.input.status = "pending") =>
        /\ \A field \in {"report", "provider_reports", "summary", "provider_errors",
                         "failed_providers", "output_path"} : ~Has(field)
        /\ proc.output.ready_providers = {}
        /\ proc.output.pending_providers = proc.input.providers

C28_Witness ==
    /\ Snapshot
    /\ proc.input.status = "pending"
    /\ proc.output.status = "pending"
    /\ proc.output.pending_providers = <<"gemini", "openai">>
\* a chat() call, and its settlement
Chat == proc.fn = "chat"

ChatSettled == Chat /\ proc.phase \in {"resolved", "rejected"}

\* what a chat() call has done so far is within its bounds
ChatBounded ==
    Chat =>
        /\ proc.attempts <= maxRetries + 1
        /\ proc.phase = "resolved" =>
               /\ proc.output.attempt = proc.attempts
               /\ proc.failures = proc.attempts - 1
               /\ proc.lastOutcome.status = 200
        /\ proc.phase = "rejected" =>
               /\ proc.failures = proc.attempts
               /\ proc.output = IF proc.attempts = 0 THEN NotConfigured(proc.provider)
                                ELSE proc.lastError

\* C29: provided each request settles, a chat() call always settles: it
\* makes at most maxRetries + 1 doChat attempts (4 by default), resolves with
\* the response of the first successful attempt or rejects with the last
\* error, and never retries indefinitely.
C29_ChatSettles == []ChatBounded /\ <>ChatSettled

C29_Witness ==
    /\ Chat
    /\ proc.phase = "resolved"
    /\ proc.attempts = maxRetries + 1
    /\ proc.failures = maxRetries

C29_WitnessRejected ==
    /\ Chat
    /\ proc.phase = "rejected"
    /\ proc.attempts = maxRetries + 1
    /\ proc.output = proc.lastError

\* C30: in OpenAIProvider.doChat an HTTP error response whose status is
\* neither 429 nor 5xx is not retried, the call rejects after that single
\* request; only 429 and 5xx responses, timeouts and network errors lead to a
\* further request, and one doChat call issues at most MAX_RETRIES + 1 = 3
\* requests.
C30_OtherHttpErrorsNotRetried ==
    (Chat /\ proc.provider = "openai") =>
        /\ proc.requests <= MAX_RETRIES + 1
        /\ proc.phase = "delaying" =>
               \/ proc.lastOutcome.kind \in {"abort", "network"}
               \/ proc.lastOutcome.status = 429
               \/ proc.lastOutcome.status >= 500
====
